---- MODULE Spec2Model ----
(***************************************************************************)
(* A model of notify_canada_interns.py: one run of main() after another    *)
(* over a README document, a persisted notified.json and a Discord         *)
(* webhook whose sends may fail.                                           *)
(*                                                                         *)
(* Strings.  A cell text is a record [s, e]: s is the sequence of atoms    *)
(* (characters, words or tags such as "</br>") of the text with every      *)
(* entity decoded, e the number of decoding passes the source text still   *)
(* needs to get there ("R&D" has e = 0, "R&amp;D" has e = 1,               *)
(* "R&amp;amp;D" has e = 2).  html.unescape and the parser's entity        *)
(* decoding each take one level off.  A URL is a record                    *)
(* [scheme, host, path, e] read the same way.  An optional value (None or  *)
(* the empty string, both falsy in Python) is the empty sequence, a        *)
(* present one a one-element sequence.  Leading and trailing white space   *)
(* is not modelled: every key main() computes is already trimmed.          *)
(***************************************************************************)
EXTENDS Integers, Sequences, FiniteSets, TLC

\* Bounds of the model.
MaxRows == 2
MaxRuns == 2
MaxPieces == 2

(***************************************************************************)
(* Characters                                                              *)
(***************************************************************************)
UpperLetters ==
  <<"A","B","C","D","E","F","G","H","I","J","K","L","M",
    "N","O","P","Q","R","S","T","U","V","W","X","Y","Z">>

LowerLetters ==
  <<"a","b","c","d","e","f","g","h","i","j","k","l","m",
    "n","o","p","q","r","s","t","u","v","w","x","y","z">>

Digits == {"0","1","2","3","4","5","6","7","8","9"}

WhiteSpace == {" ", "\t"}

Range(f) == {f[i] : i \in DOMAIN f}

\* \w of the re module
IsWordChar(c) == c \in Range(UpperLetters) \cup Range(LowerLetters) \cup Digits \cup {"_"}

LowerChar(c) ==
  IF \E i \in DOMAIN UpperLetters : UpperLetters[i] = c
  THEN LowerLetters[CHOOSE i \in DOMAIN UpperLetters : UpperLetters[i] = c]
  ELSE c

\* str.lower()
Lower(s) == [i \in DOMAIN s |-> LowerChar(s[i])]

\* needle in s
Contains(s, needle) ==
  \E i \in 1..(Len(s) - Len(needle) + 1) : SubSeq(s, i, i + Len(needle) - 1) = needle

\* \b between positions i and i+1 of s (i = 0: before the first character)
WordBoundary(s, i) ==
  LET left == i >= 1 /\ i <= Len(s) /\ IsWordChar(s[i])
      right == i + 1 >= 1 /\ i + 1 <= Len(s) /\ IsWordChar(s[i + 1])
  IN left # right

(***************************************************************************)
(* Entities and tags                                                       *)
(***************************************************************************)
IsTag(a) == a \in {"</br>", "<b>", "</b>", "<td>", "</td>"}

\* html.unescape: one pass of entity decoding
HtmlUnescape(t) == [t EXCEPT !.e = IF t.e > 0 THEN t.e - 1 ELSE 0]

\* normalize_url: "" for a falsy argument, else html.unescape(url).strip()
NormalizeUrl(url) == HtmlUnescape(url)

\* strip_html_tags: BeautifulSoup(text).get_text(): tags dropped, entities decoded
StripHtmlTags(t) ==
  [s |-> SelectSeq(t.s, LAMBDA a : ~IsTag(a)), e |-> HtmlUnescape(t).e]

(***************************************************************************)
(* Application cells and extract_link_from_cell                            *)
(*                                                                         *)
(* A raw cell is the sequence of its link-bearing pieces, in order:        *)
(*   [kind |-> "a",   url |-> u]   <a href="u">Apply</a>                   *)
(*   [kind |-> "md",  url |-> u]   [Apply](u)                              *)
(*   [kind |-> "url", url |-> u]   u written out in the text               *)
(*   [kind |-> "txt", url |-> NoUrl]  text that holds no address           *)
(* The empty sequence is the empty string.                                 *)
(***************************************************************************)
NoUrl == [scheme |-> "", host |-> "", path |-> <<>>, e |-> 0]

\* href.lower().startswith("http")
StartsWithHttp(u) == u.scheme \in {"http", "https", "HTTP", "HTTPS", "Http", "Https"}

\* the regular expressions' https?://
MatchesHttpRegex(u) == u.scheme \in {"http", "https"}

\* "simplify.jobs/p/" in href
IsSimplifyLink(u) == u.host = "simplify.jobs" /\ Len(u.path) >= 2 /\ u.path[1] = "p"

\* bs.find_all("a", href=True), each href as the parser decodes the attribute
AnchorHrefs(cell) ==
  LET anchors == SelectSeq(cell, LAMBDA p : p.kind = "a")
  IN [i \in DOMAIN anchors |-> HtmlUnescape(anchors[i].url)]

\* the anchor choice without the preference: the first absolute href wins
ExtractFirstAbsolute(cell) ==
  LET absolute == SelectSeq(AnchorHrefs(cell), StartsWithHttp)
  IN IF absolute # <<>> THEN <<NormalizeUrl(absolute[1])>> ELSE <<>>

ExtractLinkFromCell(cell) ==
  IF cell = <<>> THEN <<>>
  ELSE
    LET hrefs == AnchorHrefs(cell)
        preferred == SelectSeq(hrefs, LAMBDA h : StartsWithHttp(h) /\ ~IsSimplifyLink(h))
        absolute == SelectSeq(hrefs, StartsWithHttp)
        markdown == SelectSeq(cell, LAMBDA p : p.kind = "md" /\ MatchesHttpRegex(p.url))
        hrefAttr == SelectSeq(cell, LAMBDA p : p.kind = "a" /\ MatchesHttpRegex(p.url))
        bare == SelectSeq(cell, LAMBDA p : p.kind # "txt" /\ MatchesHttpRegex(p.url))
    IN IF preferred # <<>> THEN <<NormalizeUrl(preferred[1])>>
       ELSE IF absolute # <<>> THEN <<NormalizeUrl(absolute[1])>>
       ELSE IF markdown # <<>> THEN <<NormalizeUrl(markdown[1].url)>>
       ELSE IF hrefAttr # <<>> THEN <<NormalizeUrl(HtmlUnescape(hrefAttr[1].url))>>
       ELSE IF bare # <<>> THEN <<NormalizeUrl(bare[1].url)>>
       ELSE <<>>

\* strip_html_tags of a raw cell: the anchors leave their text, the rest is decoded
CellText(cell) ==
  [i \in DOMAIN cell |->
     IF cell[i].kind = "a" THEN [kind |-> "txt", url |-> NoUrl]
     ELSE [cell[i] EXCEPT !.url = HtmlUnescape(@)]]

(***************************************************************************)
(* Row filters                                                             *)
(***************************************************************************)
\* location_is_canada
LocationIsCanada(location_text) ==
  /\ location_text.s # <<>>
  /\ Contains(Lower(StripHtmlTags(location_text).s), <<"c","a","n","a","d","a">>)

\* re.search(r"\b0\s*d\b|\b0\s*days?\b", s): a 0 at a word boundary, white space
\* of any length, then d, day or days up to a word boundary
ZeroDayUnits == {<<"d">>, <<"d","a","y">>, <<"d","a","y","s">>}

AgeRegexMatches(s) ==
  \E i \in 1..Len(s) : \E j \in (i + 1)..Len(s) : \E unit \in ZeroDayUnits :
    /\ s[i] = "0"
    /\ WordBoundary(s, i - 1)
    /\ \A k \in (i + 1)..(j - 1) : s[k] \in WhiteSpace
    /\ j + Len(unit) - 1 <= Len(s)
    /\ SubSeq(s, j, j + Len(unit) - 1) = unit
    /\ WordBoundary(s, j + Len(unit) - 1)

\* the age filter with the pattern left out: any non-empty age passes
AgeIsPresent(age) == age.s # <<>>

\* not age or not re.search(..., age.lower())
AgeIsZeroDays(age) == age.s # <<>> /\ AgeRegexMatches(Lower(age.s))

(***************************************************************************)
(* Rows                                                                    *)
(*                                                                         *)
(* A parsed row maps the five columns Company, Role, Location,             *)
(* Application, Age to their raw cells; the documents of the model all     *)
(* carry this header, so the header look-ups of main() resolve to them.    *)
(***************************************************************************)
Arrow == [s |-> <<"↳">>, e |-> 0]

\* build_normalized_rows: every column twice, as text and raw
BuildNormalizedRow(r) ==
  [company |-> StripHtmlTags(r.company),
   role |-> StripHtmlTags(r.role),
   location |-> StripHtmlTags(r.location),
   age |-> StripHtmlTags(r.age),
   application |-> CellText(r.application),
   application_raw |-> r.application]

\* the two filters at the head of the loop body
PassesFilters(item) == LocationIsCanada(item.location) /\ AgeIsZeroDays(item.age)

\* current_link
CurrentLink(item) ==
  LET fromRaw == ExtractLinkFromCell(item.application_raw)
  IN IF fromRaw # <<>> THEN fromRaw ELSE ExtractLinkFromCell(item.application)

\* strip_html_tags(company_text_raw).strip() == "↳"
IsSubRow(item) == StripHtmlTags(item.company) = Arrow

\* company_text_raw and strip_html_tags(company_text_raw).strip() != "↳"
IsMainRow(item) == item.company.s # <<>> /\ ~IsSubRow(item)

\* previous_company after the row
NextPreviousCompany(item, prev) ==
  IF IsMainRow(item) THEN <<StripHtmlTags(item.company)>> ELSE prev

\* last_valid_link after the row
NextLastValidLink(item, last) ==
  IF IsMainRow(item) /\ CurrentLink(item) # <<>> THEN CurrentLink(item) ELSE last

\* link = current_link or last_valid_link
RowLink(item, last) ==
  IF CurrentLink(item) # <<>> THEN CurrentLink(item) ELSE NextLastValidLink(item, last)

\* previous_company if the row is a sub-row and previous_company is truthy
RowCompany(item, prev) ==
  LET p == NextPreviousCompany(item, prev)
  IN IF IsSubRow(item) /\ p # <<>> /\ p[1].s # <<>> THEN p[1]
     ELSE StripHtmlTags(item.company)

\* the dedupe key: the link, else company|role|location
RowKey(item, last, prev) ==
  LET link == RowLink(item, last)
  IN IF link # <<>> THEN <<NormalizeUrl(link[1])>>
     ELSE <<RowCompany(item, prev), item.role, StripHtmlTags(item.location)>>

\* description of the embed
RowDescription(item, last) ==
  IF RowLink(item, last) # <<>> THEN "Click to apply" ELSE "Application link not found."

(***************************************************************************)
(* The inputs of the model: addresses, cells, rows, documents              *)
(***************************************************************************)
Text(atoms) == [s |-> atoms, e |-> 0]

UrlA == [scheme |-> "https", host |-> "x.co", path |-> <<"a">>, e |-> 0]
UrlB == [scheme |-> "https", host |-> "x.co", path |-> <<"b">>, e |-> 0]
UrlSimplify == [scheme |-> "https", host |-> "simplify.jobs", path |-> <<"p", "1">>, e |-> 0]
UrlRelative == [scheme |-> "", host |-> "", path |-> <<"careers", "apply">>, e |-> 0]

TorontoCanada == <<"T","o","r","o","n","t","o",","," ","C","a","n","a","d","a">>
SfUsa == <<"S","F",","," ","U","S","A">>

\* The rows a document of the model is made of.
Pool ==
  << \* 1: a primary row with a Markdown link, posted today in Canada
     [company |-> Text(<<"Acme">>), role |-> Text(<<"SWE Intern">>),
      location |-> Text(TorontoCanada),
      application |-> <<[kind |-> "md", url |-> UrlA]>>,
      age |-> Text(<<"0","d">>)],
     \* 2: a sub-row with an empty application cell
     [company |-> Text(<<"↳">>), role |-> Text(<<"SWE Intern II">>),
      location |-> Text(<<"C","a","n","a","d","a">>),
      application |-> <<>>,
      age |-> Text(<<"0"," ","d","a","y","s">>)],
     \* 3: a primary row without a link, its role written R&amp;amp;D Intern
     [company |-> Text(<<"Beta">>), role |-> [s |-> <<"R&D Intern">>, e |-> 2],
      location |-> Text(<<"C","A","N","A","D","A">>),
      application |-> <<>>,
      age |-> Text(<<"0","D">>)],
     \* 4: a primary row outside Canada, with an anchor
     [company |-> Text(<<"Gamma">>), role |-> Text(<<"SWE Intern">>),
      location |-> Text(SfUsa),
      application |-> <<[kind |-> "a", url |-> UrlB]>>,
      age |-> Text(<<"0","d">>)],
     \* 5: a primary row in Canada posted five days ago
     [company |-> Text(<<"Acme">>), role |-> Text(<<"SWE Intern">>),
      location |-> Text(TorontoCanada),
      application |-> <<[kind |-> "md", url |-> UrlA]>>,
      age |-> Text(<<"5","d">>)],
     \* 6: a primary row with two anchors, two locations, and the age "0  d"
     [company |-> Text(<<"Beta">>), role |-> Text(<<"ML Intern">>),
      location |-> Text(<<"C","a","n","a","d","a","</br>","U","S","A">>),
      application |-> <<[kind |-> "a", url |-> UrlSimplify], [kind |-> "a", url |-> UrlB]>>,
      age |-> Text(<<"0"," "," ","d">>)],
     \* 7: a sub-row with a link of its own
     [company |-> Text(<<"↳">>), role |-> Text(<<"SWE Intern III">>),
      location |-> Text(<<"C","a","n","a","d","a">>),
      application |-> <<[kind |-> "md", url |-> UrlB]>>,
      age |-> Text(<<"0","d">>)] >>

\* a line of a pipe table that is no data row, read as one: no cell passes a filter
BlankRow ==
  [company |-> Text(<<>>), role |-> Text(<<>>), location |-> Text(<<>>),
   application |-> <<>>, age |-> Text(<<>>)]

RowOf(id) == IF id \in DOMAIN Pool THEN Pool[id] ELSE BlankRow

SeqsUpTo(S, n) == UNION {[1..k -> S] : k \in 0..n}

HeaderLine == [kind |-> "hdr", row |-> 0]
SeparatorLine == [kind |-> "sep", row |-> 0]
DataLines(ids) == [i \in DOMAIN ids |-> [kind |-> "row", row |-> ids[i]]]

\* A document: whether a line holds a section keyword; the lines of the section's
\* first pipe table; the section's first <table> and the document's first
\* <table>...</table>, each absent (<<>>) or <<its data rows>>.
Document(heading, pipe, secHtml, anyHtml) ==
  [heading |-> heading, pipe |-> pipe, secHtml |-> secHtml, anyHtml |-> anyHtml]

\* the documents whose section is one well-formed pipe table
PipeDocuments ==
  {Document(TRUE, <<HeaderLine, SeparatorLine>> \o DataLines(ids), <<>>, <<>>) :
     ids \in SeqsUpTo(DOMAIN Pool, MaxRows)}

\* every layout of the tables, over single rows
LayoutDocuments ==
  {Document(h, p, s, a) :
     h \in BOOLEAN,
     p \in {<<>>, <<HeaderLine>>, <<HeaderLine, SeparatorLine>>, <<HeaderLine>> \o DataLines(<<1>>)},
     s \in {<<>>, << <<>> >>, << <<3>> >>},
     a \in {<<>>, << <<>> >>, << <<6>> >>}}

Documents == PipeDocuments \cup LayoutDocuments

(***************************************************************************)
(* Table extraction                                                        *)
(***************************************************************************)
\* find_section_markdown: None when no line holds a keyword
FindSectionMarkdown(d) == d.heading

\* extract_first_markdown_table: the section's pipe lines, <<>> for None
ExtractFirstMarkdownTable(d) == d.pipe

\* parse_markdown_table: the rows after the header and an optional separator
ParseMarkdownTable(table_lines) ==
  IF Len(table_lines) < 2 THEN <<>>
  ELSE LET data_rows == IF table_lines[2].kind = "sep"
                        THEN SubSeq(table_lines, 3, Len(table_lines))
                        ELSE SubSeq(table_lines, 2, Len(table_lines))
       IN [i \in DOMAIN data_rows |-> data_rows[i].row]

\* parse_html_table: None (<<>>) without a table, else its data rows
ParseHtmlTable(table) == IF table = <<>> THEN <<>> ELSE table[1]

\* the rows main() ends up with
TableRows(d) ==
  IF ExtractFirstMarkdownTable(d) # <<>>
  THEN ParseMarkdownTable(ExtractFirstMarkdownTable(d))
  ELSE IF ParseHtmlTable(d.secHtml) # <<>> THEN ParseHtmlTable(d.secHtml)
  ELSE IF d.anyHtml # <<>> /\ ParseHtmlTable(d.anyHtml) # <<>> THEN ParseHtmlTable(d.anyHtml)
  ELSE <<>>

(***************************************************************************)
(* The store                                                               *)
(***************************************************************************)
NoFile == [state |-> "absent", keys |-> {}]
CorruptFile == [state |-> "corrupt", keys |-> {}]
ListFile(keys) == [state |-> "list", keys |-> keys]

\* normalize_url applied to a stored key: one decoding pass over the whole string
NormalizeKey(k) == [i \in DOMAIN k |-> NormalizeUrl(k[i])]

\* load_notified
LoadNotified(file) ==
  IF file.state = "list" THEN {NormalizeKey(k) : k \in file.keys} ELSE {}

\* save_notified: the JSON array of the set (its order is lost again on loading)
SaveNotified(set) == ListFile(set)

\* the stores a first run may find: none, or one written by an earlier revision
\* that kept the address of row 1 as the page wrote it, "&" as "&amp;"
InitialStores == {NoFile, ListFile({<<[UrlA EXCEPT !.e = 1]>>})}

(***************************************************************************)
(* State                                                                   *)
(***************************************************************************)
VARIABLES
  doc,               \* the README the fetch returns
  webhook,           \* whether DISCORD_WEBHOOK_URL is set
  store,             \* notified.json
  found,             \* history: notified.json as this run found it
  writes,            \* history: the calls of save_notified of this run
  run,               \* which run of main() this is
  pc,                \* where the run is: "start", "locate", "loop", "done"
  rows,              \* the parsed rows (indices into Pool)
  idx,               \* the row the loop is at
  notified,          \* the Notified Set
  newly_notified,    \* the keys this run added
  last_valid_link,   \* carry state of the loop
  previous_company,  \* carry state of the loop
  sent,              \* history: the calls of send_discord_webhook of this run
  ended,             \* history: how this run ended, <<>> while it runs
  previous,          \* history: how the run before this one ended, <<>> if none
  delivered,         \* history: the keys the runs before this one notified
  cell,              \* extract_link_from_cell: its argument
  resolved,          \* extract_link_from_cell: its result
  linkpc             \* extract_link_from_cell: "idle", "called", "returned"

vars == <<doc, webhook, store, found, writes, run, pc, rows, idx, notified, newly_notified,
          last_valid_link, previous_company, sent, ended, previous, delivered,
          cell, resolved, linkpc>>

locals == <<rows, idx, notified, newly_notified, last_valid_link, previous_company>>
linkVars == <<cell, resolved, linkpc>>
earlier == <<found, writes, previous, delivered>>

Item == BuildNormalizedRow(RowOf(rows[idx]))

InLoop == pc = "loop" /\ idx <= Len(rows)

\* how a run ends: exit status, whether by an uncaught exception, at which step,
\* whether one of its sends failed, whether no run so far ended by an exception
Ending(status, fault, at) ==
  [exit |-> status, fault |-> fault, at |-> at,
   failed |-> \E n \in sent : ~n.ok,
   clean |-> ~fault /\ (previous = <<>> \/ previous[1].clean)]

Finish(status, fault, at) ==
  /\ pc' = "done"
  /\ ended' = <<Ending(status, fault, at)>>

Init ==
  /\ doc \in Documents
  /\ webhook \in BOOLEAN
  /\ store \in InitialStores
  /\ found = store
  /\ writes = 0
  /\ run = 1
  /\ pc = "start"
  /\ rows = <<>>
  /\ idx = 1
  /\ notified = {}
  /\ newly_notified = <<>>
  /\ last_valid_link = <<>>
  /\ previous_company = <<>>
  /\ sent = {}
  /\ ended = <<>>
  /\ previous = <<>>
  /\ delivered = {}
  /\ cell = <<>>
  /\ resolved = <<>>
  /\ linkpc = "idle"

(***************************************************************************)
(* main()                                                                  *)
(***************************************************************************)
\* lines 219-222: the secret is missing
ExitMissingSecret ==
  /\ pc = "start"
  /\ ~webhook
  /\ Finish(2, FALSE, "secret")
  /\ UNCHANGED <<doc, webhook, store, run, locals, sent, earlier, linkVars>>

\* line 225: the fetch returns the document
FetchReadme ==
  /\ pc = "start"
  /\ webhook
  /\ pc' = "locate"
  /\ UNCHANGED <<doc, webhook, store, run, locals, sent, ended, earlier, linkVars>>

\* line 225: requests.get or raise_for_status raises; nothing catches it, the
\* interpreter prints the traceback and exits with status 1
FetchFails ==
  /\ pc = "start"
  /\ webhook
  /\ Finish(1, TRUE, "fetch")
  /\ UNCHANGED <<doc, webhook, store, run, locals, sent, earlier, linkVars>>

\* lines 227-230
ExitNoSection ==
  /\ pc = "locate"
  /\ ~FindSectionMarkdown(doc)
  /\ Finish(1, FALSE, "section")
  /\ UNCHANGED <<doc, webhook, store, run, locals, sent, earlier, linkVars>>

\* lines 232-253: no strategy gave a row
ExitNoRows ==
  /\ pc = "locate"
  /\ FindSectionMarkdown(doc)
  /\ TableRows(doc) = <<>>
  /\ Finish(0, FALSE, "rows")
  /\ UNCHANGED <<doc, webhook, store, run, locals, sent, earlier, linkVars>>

\* lines 232-271: the rows are parsed, the store is loaded, the loop starts
ParseTable ==
  /\ pc = "locate"
  /\ FindSectionMarkdown(doc)
  /\ TableRows(doc) # <<>>
  /\ rows' = TableRows(doc)
  /\ notified' = LoadNotified(store)
  /\ newly_notified' = <<>>
  /\ last_valid_link' = <<>>
  /\ previous_company' = <<>>
  /\ idx' = 1
  /\ pc' = "loop"
  /\ UNCHANGED <<doc, webhook, store, run, sent, ended, earlier, linkVars>>

\* lines 278-283: a filter rejects the row
SkipFiltered ==
  /\ InLoop
  /\ ~PassesFilters(Item)
  /\ idx' = idx + 1
  /\ UNCHANGED <<doc, webhook, store, run, pc, rows, notified, newly_notified,
                 last_valid_link, previous_company, sent, ended, earlier, linkVars>>

\* lines 286-300: the carry state after a row that passed the filters
Carry ==
  /\ previous_company' = NextPreviousCompany(Item, previous_company)
  /\ last_valid_link' = NextLastValidLink(Item, last_valid_link)
  /\ idx' = idx + 1

\* lines 312-315: the key is in the Notified Set
SkipNotified ==
  /\ InLoop
  /\ PassesFilters(Item)
  /\ RowKey(Item, last_valid_link, previous_company) \in notified
  /\ Carry
  /\ UNCHANGED <<doc, webhook, store, run, pc, rows, notified, newly_notified,
                 sent, ended, earlier, linkVars>>

\* the call of send_discord_webhook for the row
Notification(ok) ==
  [idx |-> idx, row |-> rows[idx],
   key |-> RowKey(Item, last_valid_link, previous_company),
   company |-> RowCompany(Item, previous_company),
   link |-> RowLink(Item, last_valid_link),
   description |-> RowDescription(Item, last_valid_link),
   ok |-> ok]

\* lines 317-331: the webhook accepts the notification
SendOk ==
  /\ InLoop
  /\ PassesFilters(Item)
  /\ RowKey(Item, last_valid_link, previous_company) \notin notified
  /\ sent' = sent \cup {Notification(TRUE)}
  /\ notified' = notified \cup {RowKey(Item, last_valid_link, previous_company)}
  /\ newly_notified' = Append(newly_notified, RowKey(Item, last_valid_link, previous_company))
  /\ Carry
  /\ UNCHANGED <<doc, webhook, store, run, pc, rows, ended, earlier, linkVars>>

\* lines 327-333: the send raises (network error, non-success response)
SendFails ==
  /\ InLoop
  /\ PassesFilters(Item)
  /\ RowKey(Item, last_valid_link, previous_company) \notin notified
  /\ sent' = sent \cup {Notification(FALSE)}
  /\ Carry
  /\ UNCHANGED <<doc, webhook, store, run, pc, rows, notified, newly_notified,
                 ended, earlier, linkVars>>

LoopOver == pc = "loop" /\ idx > Len(rows)

\* the store written at the end of every run, new keys or not
SaveAlways == TRUE

\* line 335: if newly_notified
ShouldSave == newly_notified # <<>>

\* lines 335-337: the run added keys and writes the store
SaveStore ==
  /\ LoopOver
  /\ ShouldSave
  /\ store' = SaveNotified(notified)
  /\ writes' = writes + 1
  /\ Finish(0, FALSE, "end")
  /\ UNCHANGED <<doc, webhook, run, locals, sent, found, previous, delivered, linkVars>>

\* lines 186-187: open or json.dump raises; the file is as it was or cut short,
\* nothing catches the exception
SaveFails ==
  /\ LoopOver
  /\ ShouldSave
  /\ store' \in {store, CorruptFile}
  /\ writes' = writes + 1
  /\ Finish(1, TRUE, "save")
  /\ UNCHANGED <<doc, webhook, run, locals, sent, found, previous, delivered, linkVars>>

\* lines 338-339: nothing new
FinishNoSave ==
  /\ LoopOver
  /\ ~ShouldSave
  /\ Finish(0, FALSE, "end")
  /\ UNCHANGED <<doc, webhook, store, run, locals, sent, earlier, linkVars>>

\* the scheduler starts main() again
NextRun ==
  /\ pc = "done"
  /\ run < MaxRuns
  /\ run' = run + 1
  /\ pc' = "start"
  /\ rows' = <<>>
  /\ idx' = 1
  /\ notified' = {}
  /\ newly_notified' = <<>>
  /\ last_valid_link' = <<>>
  /\ previous_company' = <<>>
  /\ sent' = {}
  /\ ended' = <<>>
  /\ previous' = ended
  /\ delivered' = delivered \cup {n.key : n \in {m \in sent : m.ok}}
  /\ found' = store
  /\ writes' = 0
  /\ UNCHANGED <<doc, webhook, store, linkVars>>

Next ==
  \/ ExitMissingSecret
  \/ FetchReadme
  \/ FetchFails
  \/ ExitNoSection
  \/ ExitNoRows
  \/ ParseTable
  \/ SkipFiltered
  \/ SkipNotified
  \/ SendOk
  \/ SendFails
  \/ SaveStore
  \/ SaveFails
  \/ FinishNoSave
  \/ NextRun

Spec == Init /\ [][Next]_vars

(***************************************************************************)
(* extract_link_from_cell on its own                                       *)
(***************************************************************************)
LinkPieces ==
  {[kind |-> "a", url |-> UrlB],
   [kind |-> "a", url |-> UrlSimplify],
   [kind |-> "a", url |-> UrlRelative],
   [kind |-> "a", url |-> [UrlA EXCEPT !.e = 2]],
   [kind |-> "a", url |-> [UrlSimplify EXCEPT !.scheme = "HTTPS"]],
   [kind |-> "md", url |-> UrlA],
   [kind |-> "url", url |-> UrlB],
   [kind |-> "txt", url |-> NoUrl]}

LinkCells == SeqsUpTo(LinkPieces, MaxPieces)

InitLink ==
  /\ doc = Document(FALSE, <<>>, <<>>, <<>>)
  /\ webhook = FALSE
  /\ store = NoFile
  /\ found = store
  /\ writes = 0
  /\ run = 1
  /\ pc = "off"
  /\ rows = <<>>
  /\ idx = 1
  /\ notified = {}
  /\ newly_notified = <<>>
  /\ last_valid_link = <<>>
  /\ previous_company = <<>>
  /\ sent = {}
  /\ ended = <<>>
  /\ previous = <<>>
  /\ delivered = {}
  /\ cell \in LinkCells
  /\ resolved = <<>>
  /\ linkpc = "called"

\* lines 115-158: the call returns
ResolveLink ==
  /\ linkpc = "called"
  /\ resolved' = ExtractLinkFromCell(cell)
  /\ linkpc' = "returned"
  /\ UNCHANGED <<doc, webhook, store, run, pc, locals, sent, ended, earlier, cell>>

NextLink == ResolveLink

SpecLink == InitLink /\ [][NextLink]_vars

(***************************************************************************)
(* Properties                                                              *)
(***************************************************************************)
ItemAt(i) == BuildNormalizedRow(RowOf(rows[i]))

AfterLoop == pc = "done" /\ ended[1].at \in {"end", "save"}

\* the location cell, markup stripped and lower-cased, holds "canada"
HasCanada(item) ==
  Contains(Lower(SelectSeq(item.location.s, LAMBDA a : ~IsTag(a))), <<"c","a","n","a","d","a">>)

\* the lower-cased age cell holds the pattern of the code
HasZeroDayPattern(item) == item.age.s # <<>> /\ AgeRegexMatches(Lower(item.age.s))

\* the lower-cased age cell holds one of 0d, 0 d, 0 day, 0 days as a word
HasListedZeroDayToken(item) ==
  LET s == Lower(item.age.s)
  IN \E i \in 1..Len(s) : \E gap \in {0, 1} : \E unit \in ZeroDayUnits :
       /\ s[i] = "0"
       /\ WordBoundary(s, i - 1)
       /\ gap = 1 => (i + 1 <= Len(s) /\ s[i + 1] = " ")
       /\ i + gap + Len(unit) <= Len(s)
       /\ SubSeq(s, i + gap + 1, i + gap + Len(unit)) = unit
       /\ WordBoundary(s, i + gap + Len(unit))

OkSends == {n \in sent : n.ok}

\* C1 (as claimed): after a run that went through its loop with every send
\* accepted and ended without an exception, the next run over the same document
\* and the store that run left makes no send.
C1_SecondRunSendsNothing ==
  (previous # <<>> /\ previous[1].at = "end" /\ previous[1].clean /\ ~previous[1].failed)
    => sent = {}

\* C2 (as claimed): every notification is for a row whose location holds
\* "canada" and whose age holds one of the tokens 0d, 0 d, 0 day, 0 days.
C2_OnlyListedTokensNotified ==
  \A n \in sent : HasCanada(ItemAt(n.idx)) /\ HasListedZeroDayToken(ItemAt(n.idx))

\* C2 (amended): every notification is for a row whose location holds "canada"
\* and whose age holds a match of the code's pattern (0, white space of any
\* length, d/day/days, between word boundaries); the keys a run adds to the
\* Notified Set are the keys of its accepted notifications, one for one.
C2_OnlyFilteredRowsNotified ==
  /\ \A n \in sent : HasCanada(ItemAt(n.idx)) /\ HasZeroDayPattern(ItemAt(n.idx))
  /\ (pc = "loop" \/ AfterLoop) =>
       /\ notified \ LoadNotified(found) \subseteq {n.key : n \in OkSends}
       /\ Range(newly_notified) = {n.key : n \in OkSends}
       /\ Len(newly_notified) = Cardinality(OkSends)

\* C2 witness: a run is over whose table held a row outside Canada aged 0d and a
\* row in Canada aged otherwise, and neither was sent.
C2_Witness ==
  /\ AfterLoop
  /\ \E i, j \in DOMAIN rows :
       /\ ~HasCanada(ItemAt(i)) /\ HasZeroDayPattern(ItemAt(i))
       /\ HasCanada(ItemAt(j)) /\ ~HasZeroDayPattern(ItemAt(j))
       /\ \A n \in sent : n.idx \notin {i, j}

\* the rows before row i that are primary rows with a link of their own
LinkedPrimaryRowsBefore(i) ==
  {j \in 1..(i - 1) : IsMainRow(ItemAt(j)) /\ CurrentLink(ItemAt(j)) # <<>>}

Max(S) == CHOOSE x \in S : \A y \in S : y <= x

\* C3 (as claimed, for sub-rows whose own application cell yields no link): a
\* notified sub-row carries the company, the link and, as its key, the link of
\* the nearest primary row before it in the table that resolved a link.
C3_SubRowInheritsNearestPrimary ==
  \A n \in sent :
    (/\ IsSubRow(ItemAt(n.idx))
     /\ CurrentLink(ItemAt(n.idx)) = <<>>
     /\ LinkedPrimaryRowsBefore(n.idx) # {})
    => LET parent == ItemAt(Max(LinkedPrimaryRowsBefore(n.idx)))
       IN /\ n.company = StripHtmlTags(parent.company)
          /\ n.link = CurrentLink(parent)
          /\ n.key = <<NormalizeUrl(CurrentLink(parent)[1])>>

\* C4 (as claimed): when a run has gone through its loop, the key of a row whose
\* send failed is not in the Notified Set and not in the store the run wrote.
C4_FailedSendStaysEligible ==
  (pc = "done" /\ ended[1].at = "end") =>
    \A n \in sent : ~n.ok => (n.key \notin notified /\ (writes > 0 => n.key \notin store.keys))

\* C5 (as claimed): a run ends with status 2 exactly when the secret is missing,
\* 1 exactly when the secret is set and the section is not found, 0 otherwise,
\* and never by an uncaught exception.
C5_ExitStatusAndNoFault ==
  pc = "done" =>
    /\ ~ended[1].fault
    /\ ended[1].exit \in {0, 1, 2}
    /\ ended[1].exit = 2 <=> ~webhook
    /\ ended[1].exit = 1 <=> (webhook /\ ~FindSectionMarkdown(doc))

\* C6: save_notified is called at most once in a run, only when the loop is
\* over, and exactly when a notification of the run was accepted; until then,
\* and in a run without an accepted notification, the file is as the run found it.
C6_StoreWrittenOnceAtEnd ==
  /\ writes <= 1
  /\ pc # "done" => (writes = 0 /\ store = found)
  /\ pc = "done" =>
       /\ writes = 1 <=> OkSends # {}
       /\ writes = 1 => (ended[1].at \in {"end", "save"} /\ idx > Len(rows))
       /\ OkSends = {} => store = found

\* C6 witness: a run is over in which one send failed and another was accepted,
\* and the file was written once and differs from the one found.
C6_Witness ==
  /\ pc = "done"
  /\ writes = 1
  /\ store # found
  /\ OkSends # {}
  /\ \E n \in sent : ~n.ok

\* a cell with exactly two anchors, the i-th internal and the j-th not
TwoAnchors(i, j) ==
  /\ Len(AnchorHrefs(cell)) = 2
  /\ {i, j} = {1, 2}
  /\ IsSimplifyLink(AnchorHrefs(cell)[i])
  /\ ~IsSimplifyLink(AnchorHrefs(cell)[j])

\* C7 (as claimed): of two anchors, one to simplify.jobs/p/ and one elsewhere,
\* the address returned is the normalised one of the anchor pointing elsewhere,
\* in either order.
C7_NonInternalAnchorReturned ==
  linkpc = "returned" =>
    \A i, j \in {1, 2} :
      TwoAnchors(i, j) => resolved = <<NormalizeUrl(AnchorHrefs(cell)[j])>>

\* C7 (amended): the same, when the address of the anchor pointing elsewhere
\* begins with http.
C7_AbsoluteNonInternalAnchorReturned ==
  linkpc = "returned" =>
    \A i, j \in {1, 2} :
      (TwoAnchors(i, j) /\ StartsWithHttp(AnchorHrefs(cell)[j]))
        => resolved = <<NormalizeUrl(AnchorHrefs(cell)[j])>>

\* C7 witness: the internal anchor comes first and the other one is returned.
C7_Witness ==
  /\ linkpc = "returned"
  /\ TwoAnchors(1, 2)
  /\ StartsWithHttp(AnchorHrefs(cell)[2])
  /\ resolved = <<NormalizeUrl(AnchorHrefs(cell)[2])>>

\* C8 (as claimed): a notified primary row whose own application cell yields no
\* link is sent without a link, under the key company|role|location.
C8_PrimaryRowKeepsOwnKey ==
  \A n \in sent :
    (IsMainRow(ItemAt(n.idx)) /\ CurrentLink(ItemAt(n.idx)) = <<>>)
    => /\ n.link = <<>>
       /\ n.description = "Application link not found."
       /\ n.key = <<StripHtmlTags(ItemAt(n.idx).company), ItemAt(n.idx).role,
                     StripHtmlTags(ItemAt(n.idx).location)>>

\* C9 (as claimed): a run ends with "No table rows found" only when the pipe
\* table of the section, the <table> of the section and the <table> of the
\* document all yield no row.
C9_NoRowsOnlyWhenNoStrategyYields ==
  (pc = "done" /\ ended[1].at = "rows") =>
    /\ ParseMarkdownTable(ExtractFirstMarkdownTable(doc)) = <<>>
    /\ ParseHtmlTable(doc.secHtml) = <<>>
    /\ ParseHtmlTable(doc.anyHtml) = <<>>

\* C10 (as claimed): while no run has ended by an exception, no key is notified
\* twice, in one run or across runs, and the Notified Set of a run and the store
\* it writes hold every key it loaded.
C10_OneNotificationPerKey ==
  (previous = <<>> \/ previous[1].clean) =>
    /\ \A n \in OkSends : n.key \notin delivered
    /\ \A n, m \in OkSends : n.key = m.key => n = m
    /\ (pc = "loop" \/ AfterLoop) => LoadNotified(found) \subseteq notified
    /\ (AfterLoop /\ ended[1].at = "end" /\ writes = 1) => LoadNotified(found) \subseteq store.keys

====
